---- MODULE Spec2Model ----
(***************************************************************************)
(* A model of ralph.py: the Ralph orchestrator (RalphOrchestrator) and its *)
(* backend selection (RalphLLMClient).                                     *)
(*                                                                         *)
(* Strings whose characters matter to the code (branch names, the content  *)
(* of .last-branch, LLM outputs) are sequences of tokens.  The token "R"   *)
(* stands for the substring "ralph/", " " for a whitespace character, "M"  *)
(* for the substring "<promise>COMPLETE</promise>"; every other token is   *)
(* an ordinary character.                                                  *)
(***************************************************************************)
EXTENDS Integers, Sequences, FiniteSets, TLC

\* ---------------------------------------------------------------- bounds
MaxIter == 2
MaxRuns == 2
MaxDay == 2

\* ------------------------------------------------------------- constants
PacingDelay == 2

BackendSet == {"ollama", "claude", "amp"}
\* values of "provider" in config.json
Providers == {"auto", "claude", "bogus", ""}
\* states of config.json
ConfigFiles == {"missing", "malformed"} \cup Providers
\* Python's None for _detected_provider
NoProvider == "None"

\* the sets of backends that can be on offer when the run starts, and when
\* a pass of the loop calls chat: by then all may have gone or all have come
StartupOffers == SUBSET BackendSet
LaterOffers == {{}, BackendSet}

\* values of "branchName" in prd.json (<<>> also stands for a missing key)
BranchNames == { <<>>, <<"R", "a">>, <<"R", "b">>, <<"R", "a", " ">> }
\* texts an LLM backend can return
Outputs == { <<"x">>, <<"x", "M", "x">> }

\* ------------------------------------------------------- string functions
\* str.strip(), line 184
RECURSIVE lstrip(_)
lstrip(s) == IF s # <<>> /\ Head(s) = " " THEN lstrip(Tail(s)) ELSE s

RECURSIVE rstrip(_)
rstrip(s) ==
    IF s # <<>> /\ s[Len(s)] = " " THEN rstrip(SubSeq(s, 1, Len(s) - 1)) ELSE s

strip(s) == rstrip(lstrip(s))

\* last_branch.replace('ralph/', ''), line 189
IsNotRalphPrefix(t) == t # "R"
\* a variant that keeps the prefix in the folder name
replace_ralph_kept(s) == s

replace_ralph(s) == SelectSeq(s, IsNotRalphPrefix)

\* a variant that finds the marker only at the start of the output
is_complete_at_start(output) == output # <<>> /\ Head(output) = "M"

\* '<promise>COMPLETE</promise>' in output, line 239
is_complete(output) == \E j \in 1..Len(output) : output[j] = "M"

\* ------------------------------------------------------------ file values
PrdAbsent == [exists |-> FALSE, ok |-> FALSE, branchName |-> <<>>]
PrdMalformed == [exists |-> TRUE, ok |-> FALSE, branchName |-> <<>>]
PrdJson(b) == [exists |-> TRUE, ok |-> TRUE, branchName |-> b]
PrdStates == {PrdAbsent, PrdMalformed} \cup {PrdJson(b) : b \in BranchNames}

MarkerAbsent == [exists |-> FALSE, text |-> <<>>]
\* a variant that writes the branch name without its outer whitespace
MarkerFile_stripped(t) == [exists |-> TRUE, text |-> strip(t)]
\* .last-branch as track_current_branch writes it, lines 220-221
MarkerFile(t) == [exists |-> TRUE, text |-> t]

\* progress.txt: the time in its header, and whether anything has been
\* written below the header
ProgressAbsent == [exists |-> FALSE, stamp |-> 0, edited |-> FALSE]
\* the header written by init_progress_file at time t, lines 207-210
ProgressHeader(t) == [exists |-> TRUE, stamp |-> t, edited |-> FALSE]

\* archive/<date>-<folder_name>/ : a folder of archive_dir
Folder(d, n, p, g) == [date |-> d, name |-> n, prd |-> p, progress |-> g]

VARIABLES
    \* files of the run directory
    prd_file, last_branch_file, progress_file, archive_dir,
    \* the environment: the calendar day
    today,
    \* the process
    run, pc, provider, detected_provider, max_iterations, i,
    outcome, exitCode,
    \* what the current run has done so far; last is the result of the
    \* latest pass of the loop
    last, chatCalls, promptReads, promptFails, sleeps, slept, probes,
    archivals, resets, markerWrites,
    \* the files as the run found them; and whether prd.json is still as
    \* the last setup that ran to its end saw it
    start, same_task
\* archivals, resets, markerWrites and start are the record of setup; it is
\* kept until the run enters its loop or ends

files == <<prd_file, last_branch_file, progress_file, archive_dir>>
env == <<today>>
proc == <<run, pc, provider, detected_provider, max_iterations, i,
          outcome, exitCode>>
hist == <<last, chatCalls, promptReads, promptFails, sleeps, slept, probes,
          archivals, resets, markerWrites>>
\* _check_ollama seen on its own: the configured model name, the names the
\* server lists, whether asking the server raised, and the probe's answer
VARIABLES model, model_names, tags_error, probe_pc, found
ollama == <<model, model_names, tags_error, probe_pc, found>>

vars == <<files, env, proc, hist, start, same_task, ollama>>

\* datetime.now(): one tick per run is enough to tell two headers apart
Now == run

NoSnapshot == [prd |-> PrdAbsent, marker |-> MarkerAbsent,
               progress |-> ProgressAbsent, archive |-> {}, same |-> FALSE]

\* what one pass of the loop did: how it ended, the output it got, the
\* provider that detect_provider gave to chat, the backend the prompt was
\* sent to
Result(kind, output, selected, backend) ==
    [kind |-> kind, output |-> output, selected |-> selected,
     backend |-> backend]
NoResult == Result("none", <<>>, "None", "none")

FreshHistory ==
    /\ last = NoResult
    /\ chatCalls = 0
    /\ promptReads = 0
    /\ promptFails = 0
    /\ sleeps = 0
    /\ slept = 0
    /\ probes = <<>>
    /\ archivals = 0
    /\ resets = 0
    /\ markerWrites = 0

\* no probe is being looked at
ProbeOff ==
    /\ model = <<>>
    /\ model_names = {}
    /\ tags_error = FALSE
    /\ probe_pc = "off"
    /\ found = FALSE

Init ==
    /\ prd_file \in PrdStates
    /\ \/ /\ last_branch_file = MarkerAbsent
          /\ progress_file = ProgressAbsent
       \/ /\ last_branch_file \in {MarkerFile(b) : b \in BranchNames \ {<<>>}}
          /\ progress_file \in
                {[exists |-> TRUE, stamp |-> 0, edited |-> e] :
                    e \in BOOLEAN}
    /\ archive_dir = {}
    /\ today = 1
    /\ run = 1
    /\ pc = "idle"
    /\ provider = "auto"
    /\ detected_provider = NoProvider
    /\ max_iterations = 0
    /\ i = 0
    /\ outcome = "none"
    /\ exitCode = -1
    /\ FreshHistory
    /\ start = NoSnapshot
    /\ same_task = FALSE
    /\ ProbeOff

\* ------------------------------------------------------------ construction
\* load_config, lines 294-314: the provider of the loaded LLMConfig
load_config(cf) == IF cf = "missing" THEN "auto" ELSE cf

\* a variant of run() that records the branch before it archives
StepAfter_track_first(step) ==
    CASE step = "start" -> "track"
      [] step = "track" -> "archive"
      [] step = "archive" -> "ensure"
      [] step = "ensure" -> "detect"
      [] step = "detect" -> "loop"

\* a variant of run() that looks for a backend before it sets up the files
StepAfter_detect_first(step) ==
    CASE step = "start" -> "detect"
      [] step = "detect" -> "archive"
      [] step = "archive" -> "track"
      [] step = "track" -> "ensure"
      [] step = "ensure" -> "loop"

\* run, lines 246-263: the order of the steps before the loop
StepAfter(step) ==
    CASE step = "start" -> "archive"
      [] step = "archive" -> "track"
      [] step = "track" -> "ensure"
      [] step = "ensure" -> "detect"
      [] step = "detect" -> "loop"

\* main and RalphOrchestrator.__init__: a new process starts; a malformed
\* config.json ends it at once (sys.exit(1), lines 315-317)
Construct ==
    /\ pc = "idle"
    /\ \E cf \in ConfigFiles, n \in 1..MaxIter :
        /\ max_iterations' = n
        /\ IF cf = "malformed"
           THEN /\ pc' = "done"
                /\ outcome' = "ConfigExit"
                /\ exitCode' = 1
                /\ UNCHANGED provider
           ELSE /\ pc' = StepAfter("start")
                /\ provider' = load_config(cf)
                /\ UNCHANGED <<outcome, exitCode>>
    /\ detected_provider' = NoProvider
    /\ i' = 0
    /\ start' = [prd |-> prd_file, marker |-> last_branch_file,
                 progress |-> progress_file, archive |-> archive_dir,
                 same |-> same_task]
    /\ UNCHANGED <<files, today, run, hist, same_task>>
    /\ UNCHANGED ollama

\* an exception that nothing catches leaves run(): the process dies
Crash ==
    /\ pc' = "done"
    /\ outcome' = "Crashed"
    /\ exitCode' = 1

\* ------------------------------------------------------------------- setup
\* line 186
branch_changed(current_branch, last_branch) ==
    /\ current_branch # <<>>
    /\ last_branch # <<>>
    /\ current_branch # last_branch

\* a variant that copies progress.txt after init_progress_file has run
archive_copy_after_reset(d, n) ==
    LET old == {f \in archive_dir : f.date = d /\ f.name = n}
    IN (archive_dir \ old) \cup {Folder(d, n, prd_file, ProgressHeader(Now))}

\* shutil.copy into the folder (date, name), lines 193-198: the folder is
\* created if missing, prd.json is overwritten, progress.txt is overwritten
\* when the ProgressLog exists and otherwise left as it is in the folder
archive_copy(d, n) ==
    LET old == {f \in archive_dir : f.date = d /\ f.name = n}
        kept == IF old = {} THEN ProgressAbsent
                ELSE (CHOOSE f \in old : TRUE).progress
        g == IF progress_file.exists THEN progress_file ELSE kept
    IN (archive_dir \ old) \cup {Folder(d, n, prd_file, g)}

\* archive_previous_run, lines 173-203
ArchivePreviousRun ==
    /\ pc = "archive"
    /\ IF ~prd_file.exists \/ ~last_branch_file.exists
       THEN /\ pc' = StepAfter("archive")
            /\ UNCHANGED <<files, archivals, resets, outcome, exitCode>>
       ELSE IF ~prd_file.ok
       THEN /\ Crash
            /\ UNCHANGED <<files, archivals, resets>>
       ELSE LET current_branch == prd_file.branchName
                last_branch == strip(last_branch_file.text)
            IN IF branch_changed(current_branch, last_branch)
               THEN /\ archive_dir' =
                          archive_copy(today, replace_ralph(last_branch))
                    /\ progress_file' = ProgressHeader(Now)
                    /\ archivals' = archivals + 1
                    /\ resets' = resets + 1
                    /\ pc' = StepAfter("archive")
                    /\ UNCHANGED <<prd_file, last_branch_file,
                                   outcome, exitCode>>
               ELSE /\ pc' = StepAfter("archive")
                    /\ UNCHANGED <<files, archivals, resets,
                                   outcome, exitCode>>
    /\ UNCHANGED <<env, run, provider, detected_provider, max_iterations, i,
                   last, chatCalls, promptReads, promptFails, sleeps, slept,
                   probes, markerWrites, start, same_task>>
    /\ UNCHANGED ollama

\* track_current_branch, lines 212-221
TrackCurrentBranch ==
    /\ pc = "track"
    /\ IF ~prd_file.exists
       THEN /\ pc' = StepAfter("track")
            /\ UNCHANGED <<last_branch_file, markerWrites, outcome, exitCode>>
       ELSE IF ~prd_file.ok
       THEN /\ Crash
            /\ UNCHANGED <<last_branch_file, markerWrites>>
       ELSE /\ pc' = StepAfter("track")
            /\ IF prd_file.branchName # <<>>
               THEN /\ last_branch_file' = MarkerFile(prd_file.branchName)
                    /\ markerWrites' = markerWrites + 1
               ELSE UNCHANGED <<last_branch_file, markerWrites>>
            /\ UNCHANGED <<outcome, exitCode>>
    /\ UNCHANGED <<prd_file, progress_file, archive_dir, env, run, provider,
                   detected_provider, max_iterations, i,
                   last, chatCalls, promptReads, promptFails, sleeps, slept,
                   probes, archivals, resets, start, same_task>>
    /\ UNCHANGED ollama

\* a variant that initialises the ProgressLog without looking
progress_missing_always(f) == TRUE

\* line 249
progress_missing(f) == ~f.exists

\* run, lines 249-250: the end of setup
EnsureProgressFile ==
    /\ pc = "ensure"
    /\ IF progress_missing(progress_file)
       THEN /\ progress_file' = ProgressHeader(Now)
            /\ resets' = resets + 1
       ELSE UNCHANGED <<progress_file, resets>>
    /\ pc' = StepAfter("ensure")
    /\ same_task' = (prd_file.exists /\ prd_file.ok)
    /\ UNCHANGED <<prd_file, last_branch_file, archive_dir, env, run,
                   provider, detected_provider, max_iterations, i,
                   outcome, exitCode,
                   last, chatCalls, promptReads, promptFails, sleeps, slept,
                   probes, archivals, markerWrites, start>>
    /\ UNCHANGED ollama

\* ------------------------------------------------------- backend selection
\* _check_ollama, _check_claude, _check_amp, lines 61-96: the probe of a
\* backend succeeds when the environment offers the backend; av is the set
\* of backends on offer at the time of the call
check_ollama(av) == "ollama" \in av
check_claude(av) == "claude" \in av
check_amp(av) == "amp" \in av

\* a variant that never takes the cached value
is_cached_never(cached) == FALSE

\* `if self._detected_provider`, line 37: None and "" are both false
is_cached(cached) == cached # NoProvider /\ cached # ""

Selected(name, probed) ==
    [raised |-> FALSE, ret |-> name, cache |-> name, probed |-> probed]

Probed(b, ok) == [backend |-> b, ok |-> ok]

\* a variant that falls back to amp without looking at its probe
detect_provider_amp_fallback(cached, cfg, av) ==
    LET o == Probed("ollama", check_ollama(av))
        c == Probed("claude", check_claude(av))
        a == Probed("amp", check_amp(av))
    IN IF is_cached(cached) THEN Selected(cached, <<>>)
       ELSE IF cfg # "auto" THEN Selected(cfg, <<>>)
       ELSE IF o.ok THEN Selected("ollama", <<o>>)
       ELSE IF c.ok THEN Selected("claude", <<o, c>>)
       ELSE Selected("amp", <<o, c, a>>)

\* a variant that tries ollama before it looks at the configured provider
detect_provider_probe_first(cached, cfg, av) ==
    LET o == Probed("ollama", check_ollama(av))
        c == Probed("claude", check_claude(av))
        a == Probed("amp", check_amp(av))
    IN IF is_cached(cached) THEN Selected(cached, <<>>)
       ELSE IF o.ok THEN Selected("ollama", <<o>>)
       ELSE IF cfg # "auto" THEN Selected(cfg, <<o>>)
       ELSE IF c.ok THEN Selected("claude", <<o, c>>)
       ELSE IF a.ok THEN Selected("amp", <<o, c, a>>)
       ELSE [raised |-> TRUE, ret |-> NoProvider, cache |-> cached,
             probed |-> <<o, c, a>>]

\* a variant that tries claude before ollama
detect_provider_claude_first(cached, cfg, av) ==
    LET o == Probed("ollama", check_ollama(av))
        c == Probed("claude", check_claude(av))
        a == Probed("amp", check_amp(av))
    IN IF is_cached(cached) THEN Selected(cached, <<>>)
       ELSE IF cfg # "auto" THEN Selected(cfg, <<>>)
       ELSE IF c.ok THEN Selected("claude", <<c>>)
       ELSE IF o.ok THEN Selected("ollama", <<c, o>>)
       ELSE IF a.ok THEN Selected("amp", <<c, o, a>>)
       ELSE [raised |-> TRUE, ret |-> NoProvider, cache |-> cached,
             probed |-> <<c, o, a>>]

\* detect_provider, lines 35-59, for the cached value, the configured
\* provider and the available backends: what it returns or that it raises,
\* the new cached value, and the probes it ran with their results, in order
detect_provider(cached, cfg, av) ==
    LET o == Probed("ollama", check_ollama(av))
        c == Probed("claude", check_claude(av))
        a == Probed("amp", check_amp(av))
    IN IF is_cached(cached) THEN Selected(cached, <<>>)
       ELSE IF cfg # "auto" THEN Selected(cfg, <<>>)
       ELSE IF o.ok THEN Selected("ollama", <<o>>)
       ELSE IF c.ok THEN Selected("claude", <<o, c>>)
       ELSE IF a.ok THEN Selected("amp", <<o, c, a>>)
       ELSE [raised |-> TRUE, ret |-> NoProvider, cache |-> cached,
             probed |-> <<o, c, a>>]

\* run, lines 252-260
DetectProvider ==
    /\ pc = "detect"
    /\ \E av \in StartupOffers :
       LET d == detect_provider(detected_provider, provider, av)
       IN /\ detected_provider' = d.cache
          /\ probes' = probes \o d.probed
          /\ IF d.raised
             THEN /\ pc' = "done"
                  /\ outcome' = "StartupFailed"
                  /\ exitCode' = 1
                  /\ UNCHANGED <<archivals, resets, markerWrites, start>>
             ELSE /\ pc' = StepAfter("detect")
                  /\ archivals' = 0
                  /\ resets' = 0
                  /\ markerWrites' = 0
                  /\ start' = NoSnapshot
                  /\ UNCHANGED <<outcome, exitCode>>
    /\ UNCHANGED <<files, env, run, provider, max_iterations, i,
                   last, chatCalls, promptReads, promptFails, sleeps, slept,
                   same_task>>
    /\ UNCHANGED ollama

\* -------------------------------------------------------------- main loop
\* a variant with range(1, max_iterations)
in_range_short(k, n) == 1 <= k /\ k < n

\* `for i in range(1, max_iterations + 1)`, line 263
in_range(k, n) == 1 <= k /\ k <= n

\* a variant whose try block covers the chat call only
handles_chat_only(kind) == kind = "chat_error"

\* `except Exception`, line 279: what the handler of the loop body catches
handles(kind) == kind \in {"prompt_error", "chat_error"}

\* a variant of chat whose last branch calls amp
iteration_results_default_amp(promptOK, d) ==
    IF ~promptOK THEN {Result("prompt_error", <<>>, NoProvider, "none")}
    ELSE IF d.raised THEN {Result("chat_error", <<>>, NoProvider, "none")}
    ELSE IF d.ret \in BackendSet
    THEN {Result("chat_error", <<>>, d.ret, d.ret)}
         \cup {Result("output", o, d.ret, d.ret) : o \in Outputs}
    ELSE {Result("chat_error", <<>>, d.ret, "amp")}
         \cup {Result("output", o, d.ret, "amp") : o \in Outputs}

\* the results run_iteration can have (lines 223-241, with chat, lines
\* 98-109) when the prompt can or cannot be read and detect_provider gives d
iteration_results(promptOK, d) ==
    IF ~promptOK THEN {Result("prompt_error", <<>>, NoProvider, "none")}
    ELSE IF d.raised THEN {Result("chat_error", <<>>, NoProvider, "none")}
    ELSE IF d.ret \in BackendSet
    THEN {Result("chat_error", <<>>, d.ret, d.ret)}
         \cup {Result("output", o, d.ret, d.ret) : o \in Outputs}
    ELSE {Result("chat_error", <<>>, d.ret, "none")}

\* one pass of the loop body, lines 263-283
RunIteration ==
    /\ pc = "loop"
    /\ in_range(i + 1, max_iterations)
    /\ i' = i + 1
    /\ promptReads' = promptReads + 1
    /\ \E promptOK \in BOOLEAN, av \in LaterOffers :
        LET d == detect_provider(detected_provider, provider, av)
        IN /\ IF promptOK
              THEN /\ chatCalls' = chatCalls + 1
                   /\ detected_provider' = d.cache
                   /\ probes' = probes \o d.probed
                   /\ UNCHANGED promptFails
              ELSE /\ promptFails' = promptFails + 1
                   /\ UNCHANGED <<chatCalls, detected_provider, probes>>
           /\ \E r \in iteration_results(promptOK, d) :
                /\ last' = r
                /\ IF r.kind = "output"
                   THEN IF is_complete(r.output)
                        THEN /\ pc' = "done"
                             /\ outcome' = "Completed"
                             /\ exitCode' = 0
                        ELSE /\ pc' = "sleep"
                             /\ UNCHANGED <<outcome, exitCode>>
                   ELSE IF handles(r.kind)
                        THEN /\ pc' = "sleep"
                             /\ UNCHANGED <<outcome, exitCode>>
                        ELSE Crash
    /\ UNCHANGED <<files, env, run, provider, max_iterations,
                   sleeps, slept, archivals, resets, markerWrites,
                   start, same_task>>
    /\ UNCHANGED ollama

\* time.sleep(2), line 286
Sleep ==
    /\ pc = "sleep"
    /\ sleeps' = sleeps + 1
    /\ slept' = slept + PacingDelay
    /\ pc' = "loop"
    /\ UNCHANGED <<files, today, run, provider, detected_provider,
                   max_iterations, i, outcome, exitCode,
                   last, chatCalls, promptReads, promptFails, probes,
                   archivals, resets, markerWrites, start, same_task>>
    /\ UNCHANGED ollama

\* the loop ends without a completion, lines 288-291
Exhaust ==
    /\ pc = "loop"
    /\ ~in_range(i + 1, max_iterations)
    /\ pc' = "done"
    /\ outcome' = "Exhausted"
    /\ exitCode' = 1
    /\ UNCHANGED <<files, env, run, provider, detected_provider,
                   max_iterations, i, hist, start, same_task>>
    /\ UNCHANGED ollama

\* ------------------------------------------------- between two processes
\* the process has ended; the next one starts from the files it left
NextRun ==
    /\ pc = "done"
    /\ run < MaxRuns
    /\ run' = run + 1
    /\ pc' = "idle"
    /\ provider' = "auto"
    /\ detected_provider' = NoProvider
    /\ max_iterations' = 0
    /\ i' = 0
    /\ outcome' = "none"
    /\ exitCode' = -1
    /\ last' = NoResult
    /\ chatCalls' = 0
    /\ promptReads' = 0
    /\ promptFails' = 0
    /\ sleeps' = 0
    /\ slept' = 0
    /\ probes' = <<>>
    /\ archivals' = 0
    /\ resets' = 0
    /\ markerWrites' = 0
    /\ start' = NoSnapshot
    /\ UNCHANGED <<files, today, same_task>>
    /\ UNCHANGED ollama

\* prd.json is produced outside the program
EnvEditPrd ==
    /\ pc = "idle"
    /\ run > 1
    /\ \E p \in PrdStates \ {prd_file} : prd_file' = p
    /\ same_task' = FALSE
    /\ UNCHANGED <<last_branch_file, progress_file, archive_dir, env, proc,
                   hist, start>>
    /\ UNCHANGED ollama

\* the agent writes its notes to progress.txt
EnvAppendProgress ==
    /\ pc = "idle"
    /\ run > 1
    /\ progress_file.exists
    /\ ~progress_file.edited
    /\ progress_file' = [progress_file EXCEPT !.edited = TRUE]
    /\ UNCHANGED <<prd_file, last_branch_file, archive_dir, env, proc,
                   hist, start, same_task>>
    /\ UNCHANGED ollama

\* a day passes
EnvNextDay ==
    /\ pc = "idle"
    /\ run > 1
    /\ today < MaxDay
    /\ today' = today + 1
    /\ UNCHANGED <<files, proc, hist, start, same_task>>
    /\ UNCHANGED ollama

\* --------------------------------------------------- the ollama probe
\* model names in tokens: "l" is "llama3", "1" is ".1", ":" the separator
\* of name and tag, "t" is "latest", "8" is "8b", "c" is "code"
ConfiguredModels == { <<"l", "1">>, <<"l">> }
ModelNames ==
    { <<"l", "1">>, <<"l", "1", ":", "t">>, <<"l", "1", ":", "8">>,
      <<"l", "1", ":">>, <<"l", "1", "8">>, <<"c", "l", "1">>,
      <<"l">>, <<"l", ":", "t">>, <<"l", ":", "8">> }
\* how many models the server lists at most
MaxListed == 2

\* str.startswith
RECURSIVE startswith(_, _)
startswith(name, prefix) ==
    IF prefix = <<>> THEN TRUE
    ELSE IF name = <<>> THEN FALSE
    ELSE Head(name) = Head(prefix) /\ startswith(Tail(name), Tail(prefix))

\* a variant that takes any name beginning with the model name
tagged_bare(m) == m

\* f"{model}:", line 80
tagged(m) == m \o <<":">>

\* f"{model}:latest", line 76
latest(m) == m \o <<":", "t">>

\* _check_ollama, lines 61-87: False when the request or the reading of
\* its answer raises, else the three tests of lines 72-82 in their order
check_ollama_tags(m, error, names) ==
    IF error THEN FALSE
    ELSE IF m \in names THEN TRUE
    ELSE IF latest(m) \in names THEN TRUE
    ELSE \E name \in names : startswith(name, tagged(m))

\* the probe starts with a configured model and an empty list
InitProbe ==
    /\ prd_file = PrdAbsent
    /\ last_branch_file = MarkerAbsent
    /\ progress_file = ProgressAbsent
    /\ archive_dir = {}
    /\ today = 1
    /\ run = 1
    /\ pc = "idle"
    /\ provider = "auto"
    /\ detected_provider = NoProvider
    /\ max_iterations = 0
    /\ i = 0
    /\ outcome = "none"
    /\ exitCode = -1
    /\ FreshHistory
    /\ start = NoSnapshot
    /\ same_task = FALSE
    /\ model \in ConfiguredModels
    /\ model_names = {}
    /\ tags_error = FALSE
    /\ probe_pc = "tags"
    /\ found = FALSE

\* the server has one more model installed
OllamaLists ==
    /\ probe_pc = "tags"
    /\ Cardinality(model_names) < MaxListed
    /\ \E name \in ModelNames \ model_names :
        model_names' = model_names \cup {name}
    /\ UNCHANGED <<model, tags_error, probe_pc, found>>
    /\ UNCHANGED <<files, env, proc, hist, start, same_task>>

\* the server is down, or its answer is not the JSON expected
OllamaFails ==
    /\ probe_pc = "tags"
    /\ ~tags_error
    /\ tags_error' = TRUE
    /\ UNCHANGED <<model, model_names, probe_pc, found>>
    /\ UNCHANGED <<files, env, proc, hist, start, same_task>>

\* _check_ollama is called and returns
CheckOllama ==
    /\ probe_pc = "tags"
    /\ found' = check_ollama_tags(model, tags_error, model_names)
    /\ probe_pc' = "returned"
    /\ UNCHANGED <<model, model_names, tags_error>>
    /\ UNCHANGED <<files, env, proc, hist, start, same_task>>

NextProbe ==
    \/ OllamaLists
    \/ OllamaFails
    \/ CheckOllama

SpecProbe == InitProbe /\ [][NextProbe]_vars

Next ==
    \/ Construct
    \/ ArchivePreviousRun
    \/ TrackCurrentBranch
    \/ EnsureProgressFile
    \/ DetectProvider
    \/ RunIteration
    \/ Sleep
    \/ Exhaust
    \/ NextRun
    \/ EnvEditPrd
    \/ EnvAppendProgress
    \/ EnvNextDay

Spec == Init /\ [][Next]_vars

TypeOK ==
    /\ prd_file \in PrdStates
    /\ pc \in {"idle", "archive", "track", "ensure", "detect", "loop",
               "sleep", "done"}
    /\ i \in 0..max_iterations
    /\ exitCode \in {-1, 0, 1}

\* ================================================================= claims
\* the output holds the completion marker somewhere
ContainsMarker(out) == "M" \in {out[j] : j \in DOMAIN out}
IsError(r) == r.kind \in {"prompt_error", "chat_error"}
\* the latest pass of the loop got as far as calling chat
ChatCalled(r) == r.kind \in {"chat_error", "output"}
\* the run is in its loop, or has left it through one of its two exits
InLoop == pc \in {"loop", "sleep"} \/ outcome \in {"Completed", "Exhausted"}
\* the run is in setup or has ended there: the record of setup is at hand
SetupPhase == pc \in {"archive", "track", "ensure", "detect"}
                 \/ outcome \in {"StartupFailed", "Crashed"}
\* the three setup operations have all run
SetupDone == pc = "detect" \/ outcome = "StartupFailed"
\* archive_previous_run has returned
ArchiveStepDone == pc \in {"track", "ensure"} \/ SetupDone

\* C1: when the output of iteration k holds the completion marker, the run
\* has ended with exit code 0 and iteration k is the last one: nothing was
\* read or sent after it, and no further pass or pacing delay can start.
C1_CompletionStops ==
    (last.kind = "output" /\ ContainsMarker(last.output))
    => /\ pc = "done"
       /\ outcome = "Completed"
       /\ exitCode = 0
       /\ i <= max_iterations
       /\ promptReads = i
       /\ chatCalls <= i
       /\ ~ENABLED RunIteration
       /\ ~ENABLED Sleep

\* completion in iteration 1 of a budget of 2
C1_Witness ==
    /\ max_iterations = 2
    /\ i = 1
    /\ ContainsMarker(last.output)
    /\ exitCode = 0

\* C2 as stated: a run that exhausts its budget without a completion has
\* made exactly N chat calls, with a pacing delay between any two
\* iterations, and has exit code 1.
C2_ExactlyNChatCalls ==
    outcome = "Exhausted"
    => /\ chatCalls = max_iterations
       /\ sleeps >= max_iterations - 1
       /\ exitCode = 1

\* C2 as amended: a run that exhausts its budget without a completion has
\* started exactly N iterations and has exit code 1; it has made one chat
\* call in each iteration whose prompt could be read and none in the others;
\* and whenever the loop is about to start iteration i + 1, i pacing delays
\* of 2 time-units have passed.
C2_Exhaustion ==
    /\ outcome = "Exhausted"
       => /\ i = max_iterations
          /\ promptReads = max_iterations
          /\ ~(last.kind = "output" /\ ContainsMarker(last.output))
          /\ exitCode = 1
    /\ InLoop => chatCalls = i - promptFails
    /\ InLoop /\ last.kind = "prompt_error" => promptFails > 0
    /\ pc = "loop" => sleeps = i /\ slept = PacingDelay * i
    /\ pc = "sleep" => sleeps = i - 1 /\ slept = PacingDelay * (i - 1)

\* a budget of 2 exhausted with one chat call only
C2_Witness ==
    /\ outcome = "Exhausted"
    /\ max_iterations = 2
    /\ promptFails = 1
    /\ chatCalls = 1

\* C3: an error raised in iteration k < N never ends the run: the run is
\* then pacing towards iteration k + 1 or about to start it; and an
\* iteration that raised is never taken as a completion.
C3_ErrorContained ==
    /\ outcome = "Crashed" => last = NoResult
    /\ IsError(last)
       => /\ outcome # "Completed"
          /\ i < max_iterations
             => \/ pc = "sleep"
                \/ pc = "loop" /\ ENABLED RunIteration

\* the prompt read failed in iteration 1 and iteration 2 has run
C3_Witness ==
    /\ max_iterations = 2
    /\ i = 2
    /\ promptFails = 1
    /\ last.kind = "output"

\* C4: with provider "auto", once detection has been tried and no probe has
\* succeeded, the run has ended in StartupFailed with exit code 1 and the
\* loop was never entered: no iteration, no prompt read, no chat call.
C4_NoBackend ==
    (/\ provider = "auto"
     /\ pc \in {"loop", "sleep", "done"}
     /\ outcome \notin {"ConfigExit", "Crashed"}
     /\ \A j \in 1..Len(probes) : ~probes[j].ok)
    => /\ pc = "done"
       /\ outcome = "StartupFailed"
       /\ exitCode = 1
       /\ Len(probes) = 3
       /\ i = 0
       /\ last = NoResult
       /\ promptReads = 0
       /\ chatCalls = 0

\* all three probes ran and failed
C4_Witness ==
    /\ outcome = "StartupFailed"
    /\ {probes[j].backend : j \in 1..Len(probes)} = BackendSet
    /\ \A j \in 1..Len(probes) : ~probes[j].ok

\* C5: with a provider other than "auto", no probe is ever run, the
\* detection at startup gives the configured name, and so does every
\* detection made by chat.
C5_Pinned ==
    provider # "auto"
    => /\ probes = <<>>
       /\ InLoop => detected_provider = provider
       /\ ChatCalled(last) => last.selected = provider

\* two chat calls under a pinned provider
C5_Witness ==
    /\ provider = "claude"
    /\ chatCalls = 2
    /\ last.selected = "claude"

PriorityOrder == <<"ollama", "claude", "amp">>

\* C6: with provider "auto", probes run in the order ollama, claude, amp
\* and stop at the first success; the backend selected is the one whose
\* probe succeeded, so every backend of higher priority had a failed probe.
C6_AutoPriority ==
    provider = "auto"
    => /\ Len(probes) <= 3
       /\ \A j \in 1..Len(probes) :
             /\ probes[j].backend = PriorityOrder[j]
             /\ j < Len(probes) => ~probes[j].ok
       /\ InLoop
          => /\ probes # <<>>
             /\ probes[Len(probes)].ok
             /\ detected_provider = probes[Len(probes)].backend

\* amp selected after ollama and claude failed their probes
C6_Witness ==
    /\ provider = "auto"
    /\ pc = "loop"
    /\ detected_provider = "amp"
    /\ Len(probes) = 3

\* the TaskDescriptor and the RunMarker as the run found them: both files
\* exist, both identities are non-empty, and they differ
IdentityChanged ==
    /\ start.prd.exists
    /\ start.marker.exists
    /\ start.prd.branchName # <<>>
    /\ start.marker.text # <<>>
    /\ start.prd.branchName # start.marker.text

\* C7: a run archives at most once, and once archive_previous_run has
\* returned it has archived if and only if the TaskDescriptor and the
\* RunMarker both existed at startup with non-empty, different identities.
C7_ArchivalTrigger ==
    /\ archivals <= 1
    /\ ArchiveStepDone => (archivals = 1 <=> IdentityChanged)

\* C8: when setup has run again with the TaskDescriptor unchanged since the
\* previous setup read it, it has archived nothing, the archive is as it
\* was and so is the ProgressLog.
C8_SetupIdempotent ==
    (/\ SetupDone
     /\ start.same
     /\ start.prd.exists /\ start.prd.ok
     /\ start.progress.exists)
    => /\ archivals = 0
       /\ archive_dir = start.archive
       /\ progress_file = start.progress

\* C9 as stated: once setup is over, the ProgressLog has been reset exactly
\* when there was no RunMarker at startup or the run archived; otherwise it
\* holds what it held at startup.
C9_ResetWhenNoMarker ==
    SetupDone
    => /\ resets > 0 <=> (~start.marker.exists \/ archivals > 0)
       /\ resets = 0 => progress_file = start.progress

\* C9 as amended: the ProgressLog is given a fresh header exactly when the
\* run archives, or when setup reaches its last step and finds no
\* ProgressLog file; whether a RunMarker existed plays no part.  It is reset
\* at most once, and without a reset it holds what it held at startup.
C9_ResetCondition ==
    SetupPhase
    => /\ resets <= 1
       /\ resets > 0
            <=> (archivals > 0 \/ (SetupDone /\ ~start.progress.exists))
       /\ resets = 0 => progress_file = start.progress
       /\ resets > 0 => progress_file = ProgressHeader(Now)

\* setup is over, there was no RunMarker, and the ProgressLog that existed
\* was left alone
C9_Witness ==
    /\ SetupDone
    /\ ~start.marker.exists
    /\ start.progress.exists
    /\ start.progress.edited
    /\ resets = 0
    /\ progress_file = start.progress

\* C10: a run that has ended did so by a malformed config, by finding no
\* backend, by completing or by exhausting its budget; no other failure
\* ends it.
C10_AbortPolicy ==
    pc = "done"
    => outcome \in {"ConfigExit", "StartupFailed", "Completed", "Exhausted"}

\* ------------------------------------------------------------------- C11
\* C11 Pacing: after each iteration that does not end the run the
\* orchestrator waits the PacingDelay before the next index, and there is no
\* delay after the final iteration: iteration N is followed directly by
\* Exhausted, a completing iteration directly by Completed. So no run
\* waits while its index is already N, and an exhausted run has waited
\* N - 1 times.
C11_Pacing ==
    /\ slept = PacingDelay * sleeps
    /\ pc = "sleep" => i < max_iterations
    /\ outcome = "Completed" => sleeps = i - 1
    /\ outcome = "Exhausted" => sleeps = max_iterations - 1

\* ------------------------------------------------------------------- C12
\* track_current_branch has had its turn in this run and the run has not
\* died in setup
MarkerTracked ==
    \/ pc \in {"ensure", "detect", "loop", "sleep"}
    \/ outcome \in {"StartupFailed", "Completed", "Exhausted"}
HasIdentity ==
    prd_file.exists /\ prd_file.ok /\ prd_file.branchName # <<>>

\* C12 RunMarker freshness: in a run whose TaskDescriptor exists with a
\* non-empty identity the RunMarker holds exactly that identity from the end
\* of track_current_branch to the end of the run; the RunMarker is written
\* at most once per run, by setup only and after the archive step, and no
\* pass of the loop changes it.
C12_MarkerFresh ==
    /\ [](MarkerTracked /\ HasIdentity =>
            /\ last_branch_file.exists
            /\ last_branch_file.text = prd_file.branchName)
    /\ [](markerWrites <= 1)
    /\ [][last_branch_file' # last_branch_file =>
            /\ pc = "track"
            /\ markerWrites = 0 /\ markerWrites' = 1
            /\ i = 0 /\ chatCalls = 0 /\ promptReads = 0]_vars

\* setup has replaced the marker of another task by the current identity,
\* whitespace and all
C12_Witness ==
    /\ pc = "detect"
    /\ markerWrites = 1
    /\ prd_file = PrdJson(<<"R", "a", " ">>)
    /\ start.marker.exists
    /\ start.marker.text = <<"R", "b">>
    /\ last_branch_file.text = <<"R", "a", " ">>

\* ------------------------------------------------------------------- C13
\* a run directory with a past: today the task b was left for a, archived
\* as <today>-b, and then a was left for b again, archived as <today>-a;
\* the RunMarker names b
LeftoverArchive ==
    {Folder(1, <<"b">>, PrdJson(<<"R", "a">>),
            [exists |-> TRUE, stamp |-> 0, edited |-> TRUE]),
     Folder(1, <<"a">>, PrdJson(<<"R", "b">>), ProgressHeader(0))}

InitLeftover ==
    /\ prd_file \in PrdStates
    /\ last_branch_file = MarkerFile(<<"R", "b">>)
    /\ progress_file \in
          {[exists |-> TRUE, stamp |-> 0, edited |-> e] : e \in BOOLEAN}
    /\ archive_dir = LeftoverArchive
    /\ today = 1
    /\ run = 1
    /\ pc = "idle"
    /\ provider = "auto"
    /\ detected_provider = NoProvider
    /\ max_iterations = 0
    /\ i = 0
    /\ outcome = "none"
    /\ exitCode = -1
    /\ FreshHistory
    /\ start = NoSnapshot
    /\ same_task = FALSE
    /\ ProbeOff

SpecLeftover == InitLeftover /\ [][Next]_vars

\* C13 Archive immutability: once an ArchiveFolder has been written no later
\* step changes its contents, also when the project goes back and forth
\* between two task identities on one date: every folder of the archive is
\* in the archive, as it is, after every step.
C13_ArchiveImmutable ==
    [][\A f \in archive_dir : f \in archive_dir']_vars

\* ------------------------------------------------------------------- C14
\* the run found the RunMarker "ralph/a" and the identity "ralph/b", and
\* has archived
ArchivedAToB ==
    /\ SetupPhase
    /\ archivals = 1
    /\ start.marker = MarkerFile(<<"R", "a">>)
    /\ start.prd = PrdJson(<<"R", "b">>)

\* C14 as the spec states it: with RunMarker "ralph/taskA" and identity
\* "ralph/taskB" the folder written by the archival is named <today>-taskB,
\* holds copies of prd.json and progress.txt, and the ProgressLog has been
\* reset.
C14_NamedAfterNewTask ==
    ArchivedAToB
    => /\ \E f \in archive_dir \ start.archive :
            /\ f.date = today
            /\ f.name = <<"b">>
            /\ f.prd.exists
            /\ f.progress.exists
       /\ progress_file = ProgressHeader(Now)

\* C14 as amended: the folder written by the archival is named after the
\* task that is left, <today>-taskA, with the prefix removed; it holds the
\* copy of prd.json and, the ProgressLog existing, of progress.txt; no other
\* folder is written; and the ProgressLog has been reset.
C14_ArchiveNaming ==
    ArchivedAToB
    => /\ \E f \in archive_dir :
            /\ f.date = today
            /\ f.name = <<"a">>
            /\ f.prd.exists
            /\ f.prd = start.prd
            /\ start.progress.exists => f.progress.exists
       /\ \A f \in archive_dir \ start.archive :
            f.date = today /\ f.name = <<"a">>
       /\ \A f \in start.archive :
            f.date # today \/ f.name # <<"a">> => f \in archive_dir
       /\ progress_file = ProgressHeader(Now)

C14_Witness ==
    /\ ArchivedAToB
    /\ pc = "track"
    /\ start.progress.edited
    /\ Cardinality(archive_dir) = 1

\* ------------------------------------------------------------------- C15
\* C15 Model-name matching of the ollama probe: the probe succeeds iff the
\* listing did not fail and some listed model equals the configured name,
\* or equals it followed by ":latest", or begins with it followed by ":".
\* Configured "llama3.1" is matched by "llama3.1", "llama3.1:latest" and
\* "llama3.1:8b" and by neither "llama3" nor "codellama3.1".
C15_ModelMatch ==
    probe_pc = "returned"
    => /\ found <=>
            /\ ~tags_error
            /\ \E n \in model_names :
                \/ n = model
                \/ n = model \o <<":", "t">>
                \/ /\ Len(n) > Len(model)
                   /\ SubSeq(n, 1, Len(model)) = model
                   /\ n[Len(model) + 1] = ":"
       /\ (model = <<"l", "1">> /\ ~tags_error)
            => (found <=> model_names \cap
                            { <<"l", "1">>, <<"l", "1", ":", "t">>,
                              <<"l", "1", ":", "8">>,
                              <<"l", "1", ":">> } # {})
       /\ (model = <<"l", "1">>
           /\ model_names \subseteq { <<"l">>, <<"c", "l", "1">> })
            => ~found

\* "llama3.1" is found through "llama3.1:8b" alone, next to "llama3"
C15_Witness ==
    /\ probe_pc = "returned"
    /\ model = <<"l", "1">>
    /\ model_names = { <<"l">>, <<"l", "1", ":", "8">> }
    /\ ~tags_error
    /\ found

\* ------------------------------------------------------------------- C16
\* C16 Archival ordering: archive_previous_run makes its decision on the
\* RunMarker as the previous run left it, and when it archives, the copies
\* and the reset of the ProgressLog are done in that step, while the
\* RunMarker is still the old one and before any pass of the loop; the
\* RunMarker is overwritten only afterwards.
C16_ArchiveFirst ==
    /\ [](pc = "archive" =>
            /\ last_branch_file = start.marker
            /\ markerWrites = 0
            /\ i = 0 /\ promptReads = 0 /\ chatCalls = 0)
    /\ []((SetupPhase /\ archivals = 1) =>
            /\ start.marker.exists
            /\ strip(start.marker.text) # start.prd.branchName
            /\ progress_file = ProgressHeader(Now))
    /\ [][(archive_dir' # archive_dir \/ archivals' > archivals) =>
            /\ pc = "archive"
            /\ archivals' = archivals + 1
            /\ progress_file' = ProgressHeader(Now)
            /\ last_branch_file' = last_branch_file
            /\ last_branch_file = start.marker
            /\ markerWrites = 0
            /\ i = 0 /\ promptReads = 0 /\ chatCalls = 0]_vars
    /\ [][last_branch_file' # last_branch_file =>
            /\ pc = "track"
            /\ archive_dir' = archive_dir
            /\ progress_file' = progress_file]_vars

\* setup has archived on the old marker and then replaced the marker
C16_Witness ==
    /\ pc = "detect"
    /\ archivals = 1
    /\ markerWrites = 1
    /\ start.marker.text = <<"R", "b">>
    /\ last_branch_file.text = <<"R", "a">>
    /\ archive_dir # start.archive
    /\ progress_file = ProgressHeader(Now)

\* ------------------------------------------------------------------- C17
\* C17 Copy before reset: when the run has archived and the ProgressLog
\* existed, the progress.txt of the folder written is the ProgressLog as the
\* run found it, lines below the header included, and the ProgressLog now
\* holds the fresh header only.
C17_CopyBeforeReset ==
    (SetupPhase /\ archivals = 1 /\ start.progress.exists)
    => /\ \E f \in archive_dir :
            /\ f.date = today
            /\ f.progress = start.progress
            /\ f \notin start.archive \/ f.prd = start.prd
       /\ \A f \in archive_dir \ start.archive :
            f.progress = start.progress
       /\ progress_file.exists
       /\ progress_file.stamp = Now
       /\ ~progress_file.edited
       /\ progress_file # start.progress

\* a log with entries has been archived and replaced by a bare header
C17_Witness ==
    /\ pc = "ensure"
    /\ archivals = 1
    /\ start.progress.edited
    /\ \E f \in archive_dir : f.progress.edited
    /\ ~progress_file.edited

\* ------------------------------------------------------------------- C18
\* C18 Selection fixed for the run: once the loop has started no probe runs
\* and the selection does not change, whatever the backends on offer then;
\* no probe runs twice in a run; and every chat call of the loop is given
\* the selection of startup and sends the prompt to that backend or to none.
C18_SelectionFixed ==
    /\ [](\A j, k \in 1..Len(probes) :
            j # k => probes[j].backend # probes[k].backend)
    /\ [](InLoop =>
            /\ provider = "auto" =>
                /\ detected_provider \in BackendSet
                /\ probes # <<>>
                /\ probes[Len(probes)] = Probed(detected_provider, TRUE)
            /\ ChatCalled(last) =>
                /\ last.selected = detected_provider
                /\ last.backend \in {detected_provider, "none"}
                /\ last.kind = "output" => last.backend = detected_provider)
    /\ [][(pc = "loop" \/ pc = "sleep") =>
            /\ probes' = probes
            /\ detected_provider' = detected_provider]_vars

\* the second chat call of a run still goes to amp, the selection of
\* startup, made when ollama and claude were not on offer
C18_Witness ==
    /\ pc = "sleep"
    /\ provider = "auto"
    /\ detected_provider = "amp"
    /\ Len(probes) = 3
    /\ chatCalls = 2
    /\ last.kind = "output"
    /\ last.backend = "amp"

\* ------------------------------------------------------------------- C19
\* the archival that the code holds due for the files the run found
ArchivalDue ==
    /\ start.prd.exists /\ start.prd.ok
    /\ start.marker.exists
    /\ branch_changed(start.prd.branchName, strip(start.marker.text))

\* C19 Setup effects precede and survive StartupFailed: a run that has
\* ended StartupFailed has started no iteration and has, before it failed,
\* done the archival that was due, given the ProgressLog its header where
\* it was archived or missing, and written the RunMarker with the current
\* identity; the files stay so.
C19_SetupSurvivesFailure ==
    outcome = "StartupFailed"
    => /\ pc = "done" /\ exitCode = 1
       /\ i = 0 /\ promptReads = 0 /\ chatCalls = 0
       /\ prd_file = start.prd
       /\ ArchivalDue =>
            /\ archivals = 1
            /\ \E f \in archive_dir :
                /\ f.date = today
                /\ f.prd = start.prd
                /\ start.progress.exists => f.progress = start.progress
            /\ progress_file = ProgressHeader(Now)
       /\ ~ArchivalDue => archivals = 0 /\ archive_dir = start.archive
       /\ progress_file.exists
       /\ ~start.progress.exists => progress_file = ProgressHeader(Now)
       /\ (start.prd.exists /\ start.prd.branchName # <<>>) =>
            /\ markerWrites = 1
            /\ last_branch_file.exists
            /\ last_branch_file.text = start.prd.branchName

\* a run without any backend has archived, reset and moved the marker
C19_Witness ==
    /\ outcome = "StartupFailed"
    /\ \A j \in 1..Len(probes) : ~probes[j].ok
    /\ archivals = 1
    /\ markerWrites = 1
    /\ last_branch_file # start.marker
    /\ archive_dir # start.archive
    /\ progress_file # start.progress

\* ------------------------------------------------------------------- C20
\* the provider is pinned to a name that is none of the three backends, and
\* the process has got past its configuration
PinnedUnknown ==
    /\ provider \notin BackendSet \cup {"auto"}
    /\ pc # "idle"
    /\ outcome # "ConfigExit"
UnknownProviderError(r) ==
    r.kind = "chat_error" /\ r.selected = provider /\ r.backend = "none"

\* C20 as the spec states it: with a pinned unknown backend name every
\* iteration that has run has raised the unknown-provider error.
C20_AlwaysUnknownProviderError ==
    (PinnedUnknown /\ i >= 1) => UnknownProviderError(last)

\* C20 as amended: with a pinned unknown backend name detection runs no
\* probe and succeeds, the loop is entered, every iteration raises an error
\* that is caught (the unknown-provider error when the prompt was read,
\* the error of the read otherwise), no prompt reaches a backend, and the
\* run ends Exhausted with exit code 1 after N iterations.
C20_PinnedUnknown ==
    /\ [](PinnedUnknown =>
            /\ probes = <<>>
            /\ outcome \notin {"StartupFailed", "Completed"}
            /\ i >= 1 =>
                /\ IsError(last)
                /\ last.backend = "none"
                /\ ChatCalled(last) => UnknownProviderError(last)
                /\ pc \in {"sleep", "loop", "done"}
                /\ chatCalls + promptFails = i
            /\ (pc = "done" /\ outcome # "Crashed") =>
                /\ outcome = "Exhausted"
                /\ exitCode = 1
                /\ i = max_iterations
                /\ promptReads = max_iterations)
    /\ [][(PinnedUnknown /\ pc = "detect") =>
            /\ pc' = "loop"
            /\ detected_provider' = provider]_vars

\* N = 2 iterations, both with the prompt read and chat refusing the name
C20_Witness ==
    /\ provider = "bogus"
    /\ outcome = "Exhausted"
    /\ exitCode = 1
    /\ i = 2
    /\ chatCalls = 2
    /\ UnknownProviderError(last)

====
